---- MODULE Spec2Model ----
(***************************************************************************)
(* Model of pike_draw.py: color_code and the two drawing methods that      *)
(* MyPage adds to pikepdf.Page, draw_line and draw_rect.                   *)
(*                                                                         *)
(* Representation.                                                         *)
(*  - A Python number x is the integer 2x (so 0.5 is 1, 1 is 2, 10 is 20); *)
(*    Num(k) is the Python integer k.  Comparisons are unchanged by the    *)
(*    scaling and PyStr renders the value as Python's format() does.       *)
(*  - A Python string is the sequence of its pieces: numbers as rendered,  *)
(*    operator mnemonics, the caller's dash pattern, and the white space   *)
(*    between them (SP, NL, IND).  Text(s) is the string itself.           *)
(*  - A Python list is a sequence; an optional argument is None or the     *)
(*    one-element sequence Some(v).                                        *)
(*  - A call returns [exc, msg, culprit, ...]: exc = "none" on a normal    *)
(*    return, otherwise the exception class, its message and, when         *)
(*    color_code raised it, the colour color_code was called with.         *)
(***************************************************************************)
EXTENDS Integers, Sequences, FiniteSets, TLC

VARIABLES page, page0, log

vars == <<page, page0, log>>

-----------------------------------------------------------------------------
(* Bounds of the model *)

MaxCalls == 3
MaxStyle == 3
MaxComponent == 3
MaxColorLen == 4

-----------------------------------------------------------------------------
(* Python values *)

Num(k) == 2 * k

None == <<>>
Some(v) == <<v>>
Value(opt) == opt[1]

SP == " "
NL == "\n"
IND == "        "

PyStr(x) ==
  IF x % 2 = 0 THEN ToString(x \div 2)
  ELSE IF x < 0 THEN "-" \o ToString((0 - x) \div 2) \o ".5"
  ELSE ToString(x \div 2) \o ".5"

RECURSIVE Text(_)
Text(s) == IF s = <<>> THEN "" ELSE Head(s) \o Text(Tail(s))

IsList(c) == DOMAIN c = 1..Len(c)

RECURSIVE PyMin(_)
PyMin(c) ==
  IF Len(c) = 1 THEN c[1]
  ELSE LET m == PyMin(Tail(c)) IN IF m < c[1] THEN m ELSE c[1]

RECURSIVE PyMax(_)
PyMax(c) ==
  IF Len(c) = 1 THEN c[1]
  ELSE LET m == PyMax(Tail(c)) IN IF m > c[1] THEN m ELSE c[1]

Returns(v) == [exc |-> "none", msg |-> "", culprit |-> None, value |-> v]
Raises(e, m, who) == [exc |-> e, msg |-> m, culprit |-> who, value |-> <<>>]

-----------------------------------------------------------------------------
(* color_code *)

ColorError == "RGB color needs 3 color components in range 0 to 1"

ColorLen == 3

ColorInvalid_OpenInterval(c) ==
  \/ ~IsList(c)
  \/ Len(c) # ColorLen
  \/ PyMin(c) < Num(0)
  \/ PyMax(c) >= Num(1)

ColorInvalid(c) ==
  \/ ~IsList(c)
  \/ Len(c) # ColorLen
  \/ PyMin(c) < Num(0)
  \/ PyMax(c) > Num(1)

ColorText(c, f) ==
  IF f = "c"
  THEN <<PyStr(c[1]), SP, PyStr(c[2]), SP, PyStr(c[3]), SP, "RG", SP>>
  ELSE <<PyStr(c[1]), SP, PyStr(c[2]), SP, PyStr(c[3]), SP, "rg", SP>>

color_code(c, f) ==
  IF ColorInvalid(c)
  THEN Raises("ValueError", ColorError, Some(c))
  ELSE Returns(ColorText(c, f))

-----------------------------------------------------------------------------
(* The page: pikepdf's Page.contents_add appends one more content stream *)

AsciiBytes(s) == Text(s)

contents_add_Prepend(self, bytes) == <<bytes>> \o self

contents_add(self, bytes) == Append(self, bytes)

Normal(self, stream) ==
  [page |-> self, exc |-> "none", msg |-> "", culprit |-> None, stream |-> stream]

Abort(self, r) ==
  [page |-> self, exc |-> r.exc, msg |-> r.msg, culprit |-> r.culprit, stream |-> <<>>]

StyleValues == {Num(0), Num(1), Num(2)}

BorderWidthError == "border_width must be non-negative"
JoinStyleError == "line_join_style value must be 0, 1, or 2"
CapStyleError == "line_cap_style value must be 0, 1, or 2"

DashText(dash_pattern) ==
  IF dash_pattern # None THEN <<Value(dash_pattern), SP, "d">> ELSE <<SP>>

Black == <<Num(0), Num(0), Num(0)>>

-----------------------------------------------------------------------------
(* MyPage.draw_line *)

LineStyleCheck_CapFirst(a) ==
  IF a.border_width < Num(0) THEN Raises("ValueError", BorderWidthError, None)
  ELSE IF a.line_cap_style \notin StyleValues
    THEN Raises("ValueError", CapStyleError, None)
  ELSE IF a.line_join_style \notin StyleValues
    THEN Raises("ValueError", JoinStyleError, None)
  ELSE Returns(<<>>)

LineStyleCheck(a) ==
  IF a.border_width < Num(0) THEN Raises("ValueError", BorderWidthError, None)
  ELSE IF a.line_join_style \notin StyleValues
    THEN Raises("ValueError", JoinStyleError, None)
  ELSE IF a.line_cap_style \notin StyleValues
    THEN Raises("ValueError", CapStyleError, None)
  ELSE Returns(<<>>)

LineColor_DefaultWhite(a) ==
  LET r == IF a.stroke_color # None
           THEN color_code(Value(a.stroke_color), "c")
           ELSE color_code(<<Num(1), Num(1), Num(1)>>, "c")
  IN IF r.exc # "none" THEN r ELSE Returns(r.value \o <<"S">>)

LineColor(a) ==
  LET r == IF a.stroke_color # None
           THEN color_code(Value(a.stroke_color), "c")
           ELSE color_code(Black, "c")
  IN IF r.exc # "none" THEN r ELSE Returns(r.value \o <<"S">>)

LineStream_CapBeforeJoin(a, dash_pattern_str, all_color_str) ==
  <<NL, IND, "q", NL,
    IND, PyStr(a.start_point[1]), SP, PyStr(a.start_point[2]), SP, "m", NL,
    IND, PyStr(a.end_point[1]), SP, PyStr(a.end_point[2]), SP, "l", NL,
    IND, PyStr(a.border_width), SP, "w", NL,
    IND, "h", NL,
    IND, PyStr(a.line_cap_style), SP, "J", NL,
    IND, PyStr(a.line_join_style), SP, "j", NL,
    IND>> \o dash_pattern_str \o <<NL,
    IND>> \o all_color_str \o <<NL,
    IND, "Q", NL,
    IND>>

LineStream(a, dash_pattern_str, all_color_str) ==
  <<NL, IND, "q", NL,
    IND, PyStr(a.start_point[1]), SP, PyStr(a.start_point[2]), SP, "m", NL,
    IND, PyStr(a.end_point[1]), SP, PyStr(a.end_point[2]), SP, "l", NL,
    IND, PyStr(a.border_width), SP, "w", NL,
    IND, "h", NL,
    IND, PyStr(a.line_join_style), SP, "j", NL,
    IND, PyStr(a.line_cap_style), SP, "J", NL,
    IND>> \o dash_pattern_str \o <<NL,
    IND>> \o all_color_str \o <<NL,
    IND, "Q", NL,
    IND>>

draw_line_AddsFirst(self, a) ==
  LET style == LineStyleCheck(a) IN
  IF style.exc # "none" THEN Abort(self, style)
  ELSE LET opened == contents_add(self, AsciiBytes(<<NL, IND, "q", NL>>))
           color == LineColor(a) IN
    IF color.exc # "none" THEN Abort(opened, color)
    ELSE LET line_stream_str == LineStream(a, DashText(a.dash_pattern), color.value)
         IN Normal(contents_add(self, AsciiBytes(line_stream_str)), line_stream_str)

draw_line(self, a) ==
  LET style == LineStyleCheck(a) IN
  IF style.exc # "none" THEN Abort(self, style)
  ELSE LET color == LineColor(a) IN
    IF color.exc # "none" THEN Abort(self, color)
    ELSE LET line_stream_str == LineStream(a, DashText(a.dash_pattern), color.value)
         IN Normal(contents_add(self, AsciiBytes(line_stream_str)), line_stream_str)

-----------------------------------------------------------------------------
(* MyPage.draw_rect *)

RectStyleCheck_RejectsZero(a) ==
  IF a.border_width <= Num(0) THEN Raises("ValueError", BorderWidthError, None)
  ELSE IF a.line_join_style \notin StyleValues
    THEN Raises("ValueError", JoinStyleError, None)
  ELSE IF a.line_cap_style \notin StyleValues
    THEN Raises("ValueError", CapStyleError, None)
  ELSE Returns(<<>>)

RectStyleCheck(a) ==
  IF a.border_width < Num(0) THEN Raises("ValueError", BorderWidthError, None)
  ELSE IF a.line_join_style \notin StyleValues
    THEN Raises("ValueError", JoinStyleError, None)
  ELSE IF a.line_cap_style \notin StyleValues
    THEN Raises("ValueError", CapStyleError, None)
  ELSE Returns(<<>>)

Plus(r, rest) == IF r.exc # "none" THEN r ELSE Returns(r.value \o rest)

RectColor_FillFirst(a) ==
  IF a.fill_color # None
  THEN Plus(color_code(Value(a.fill_color), "f"), <<"f", NL>>)
  ELSE IF a.stroke_color # None
    THEN Plus(color_code(Value(a.stroke_color), "c"), <<NL>>)
  ELSE Plus(color_code(Black, "c"), <<NL>>)

RectColor(a) ==
  IF a.fill_color # None /\ a.stroke_color # None
  THEN LET fill == color_code(Value(a.fill_color), "f") IN
       IF fill.exc # "none" THEN fill
       ELSE LET stroke == color_code(Value(a.stroke_color), "c") IN
            IF stroke.exc # "none" THEN stroke
            ELSE Returns(fill.value \o stroke.value \o <<"B", NL>>)
  ELSE IF a.fill_color # None
    THEN Plus(color_code(Value(a.fill_color), "f"), <<"f", NL>>)
  ELSE IF a.stroke_color # None
    THEN Plus(color_code(Value(a.stroke_color), "c"), <<NL>>)
  ELSE IF a.stroke_color = None
    THEN Plus(color_code(Black, "c"), <<NL>>)
  ELSE Returns(<<>>)

RectPaint_ExceptFillOnly(a, all_color_str) ==
  IF a.fill_color # None /\ a.stroke_color = None
  THEN all_color_str
  ELSE all_color_str \o <<"S">>

RectPaint(a, all_color_str) == all_color_str \o <<"S">>

RectStream_NoRestore(a, dash_pattern_str, all_color_str) ==
  <<NL, IND, "q", NL,
    IND, PyStr(a.point[1]), SP, PyStr(a.point[2]), SP,
         PyStr(a.width), SP, PyStr(a.height), SP, "re", NL,
    IND, PyStr(a.border_width), SP, "w", NL,
    IND, "h", NL,
    IND, PyStr(a.line_join_style), SP, "j", NL,
    IND, PyStr(a.line_cap_style), SP, "J", NL,
    IND>> \o dash_pattern_str \o <<NL,
    IND>> \o all_color_str \o <<NL,
    IND>>

RectStream(a, dash_pattern_str, all_color_str) ==
  <<NL, IND, "q", NL,
    IND, PyStr(a.point[1]), SP, PyStr(a.point[2]), SP,
         PyStr(a.width), SP, PyStr(a.height), SP, "re", NL,
    IND, PyStr(a.border_width), SP, "w", NL,
    IND, "h", NL,
    IND, PyStr(a.line_join_style), SP, "j", NL,
    IND, PyStr(a.line_cap_style), SP, "J", NL,
    IND>> \o dash_pattern_str \o <<NL,
    IND>> \o all_color_str \o <<NL,
    IND, "Q", NL,
    IND>>

draw_rect(self, a) ==
  LET style == RectStyleCheck(a) IN
  IF style.exc # "none" THEN Abort(self, style)
  ELSE LET color == RectColor(a) IN
    IF color.exc # "none" THEN Abort(self, color)
    ELSE LET rect_stream_str ==
               RectStream(a, DashText(a.dash_pattern), RectPaint(a, color.value))
         IN Normal(contents_add(self, AsciiBytes(rect_stream_str)), rect_stream_str)

-----------------------------------------------------------------------------
(* Arguments the callers pass *)

Components == (0 - 1)..MaxComponent

Colors == UNION {[1..n -> Components] : n \in 0..MaxColorLen}

Modes == {"c", "f"}

Red == <<Num(1), Num(0), Num(0)>>
Green == <<Num(0), Num(1), Num(0)>>
Cyan == <<Num(0), Num(1), Num(1)>>

Uniform(c) == \A i, j \in DOMAIN c : c[i] = c[j]

DrawColors ==
  {c \in Colors : Len(c) \in (ColorLen - 1)..(ColorLen + 1) /\ Uniform(c)}
    \cup {Red, Green, Cyan}

OptColors == {None} \cup {Some(c) : c \in DrawColors}

Styles == {Num(k) : k \in (0 - 1)..MaxStyle}

BorderWidths == {Num(0 - 1), Num(0), 1, Num(2)}

DashPatterns == {None, Some("[2 5] 0")}

Points == {<<Num(10), Num(50)>>, <<Num(300), Num(0 - 400)>>}

LineArgs ==
  [start_point : Points, end_point : Points, border_width : BorderWidths,
   stroke_color : OptColors, dash_pattern : DashPatterns,
   line_join_style : Styles, line_cap_style : Styles]

RectArgs ==
  [point : {<<Num(10), Num(100)>>}, width : {Num(50)}, height : {Num(100)},
   border_width : BorderWidths, stroke_color : OptColors,
   dash_pattern : DashPatterns, fill_color : OptColors,
   line_join_style : Styles, line_cap_style : Styles]

(* The calls of the module's example run (lines 161-171), and failing variants *)

Line0 ==
  [start_point |-> <<Num(10), Num(642)>>, end_point |-> <<Num(300), Num(392)>>,
   border_width |-> Num(0), stroke_color |-> None, dash_pattern |-> None,
   line_join_style |-> Num(0), line_cap_style |-> Num(0)]

Rect0 ==
  [point |-> <<Num(10), Num(682)>>, width |-> Num(50), height |-> Num(100),
   border_width |-> Num(0), stroke_color |-> None, dash_pattern |-> None,
   fill_color |-> None, line_join_style |-> Num(0), line_cap_style |-> Num(0)]

SeqLineArgs ==
  { [Line0 EXCEPT !.border_width = Num(2), !.dash_pattern = Some("[2 5] 0"),
                  !.stroke_color = Some(Cyan), !.line_join_style = Num(1),
                  !.line_cap_style = Num(1)],
    Line0,
    [Line0 EXCEPT !.line_cap_style = Num(3)],
    [Line0 EXCEPT !.stroke_color = Some(<<Num(0), Num(1)>>)] }

SeqRectArgs ==
  { [Rect0 EXCEPT !.border_width = Num(5), !.stroke_color = Some(Green),
                  !.dash_pattern = Some("[2 2] 0"), !.line_join_style = Num(1)],
    [Rect0 EXCEPT !.point = <<Num(100), Num(682)>>, !.border_width = Num(5),
                  !.fill_color = Some(Red), !.stroke_color = Some(Black)],
    [Rect0 EXCEPT !.point = <<Num(400), Num(682)>>, !.height = Num(50),
                  !.fill_color = Some(Red)],
    Rect0,
    [Rect0 EXCEPT !.border_width = Num(0 - 1)],
    [Rect0 EXCEPT !.line_join_style = Num(3), !.fill_color = Some(Red)],
    [Rect0 EXCEPT !.fill_color = Some(<<Num(1), Num(0), Num(2)>>)] }

InitialContents == {<<>>, <<"BT /F1 12 Tf (x) Tj ET">>}

-----------------------------------------------------------------------------
(* The state machine: page is the page's content streams, page0 what the    *)
(* page held when it was wrapped, log the calls made so far, in call order. *)

Entry(op, a, r, before) ==
  [op |-> op, args |-> a, exc |-> r.exc, msg |-> r.msg, culprit |-> r.culprit,
   stream |-> r.stream, before |-> before]

Init ==
  /\ page0 \in InitialContents
  /\ page = page0
  /\ log = <<>>

ColorCode(c, f) ==
  LET r == color_code(c, f) IN
  /\ log' = Append(log, [op |-> "color_code", args |-> [c |-> c, f |-> f],
                         exc |-> r.exc, msg |-> r.msg, culprit |-> r.culprit,
                         stream |-> r.value, before |-> page])
  /\ UNCHANGED <<page, page0>>

DrawLine(a) ==
  LET r == draw_line(page, a) IN
  /\ page' = r.page
  /\ log' = Append(log, Entry("draw_line", a, r, page))
  /\ UNCHANGED page0

DrawRect(a) ==
  LET r == draw_rect(page, a) IN
  /\ page' = r.page
  /\ log' = Append(log, Entry("draw_rect", a, r, page))
  /\ UNCHANGED page0

(* One call, over the wide argument sets *)

CallColorCode == log = <<>> /\ \E c \in Colors, f \in Modes : ColorCode(c, f)

CallDrawLine == log = <<>> /\ \E a \in LineArgs : DrawLine(a)

CallDrawRect == log = <<>> /\ \E a \in RectArgs : DrawRect(a)

Next == CallColorCode \/ CallDrawLine \/ CallDrawRect

Spec == Init /\ [][Next]_vars

(* Up to MaxCalls calls on one page *)

SeqDrawLine == Len(log) < MaxCalls /\ \E a \in SeqLineArgs : DrawLine(a)

SeqDrawRect == Len(log) < MaxCalls /\ \E a \in SeqRectArgs : DrawRect(a)

NextSeq == SeqDrawLine \/ SeqDrawRect

SpecSeq == Init /\ [][NextSeq]_vars

-----------------------------------------------------------------------------
(* Vocabulary of the properties *)

Called == log # <<>>

Last == log[Len(log)]

After(i) == IF i = Len(log) THEN page ELSE log[i + 1].before

IsDraw(e) == e.op \in {"draw_line", "draw_rect"}

Ok(e) == e.exc = "none"

White(p) == p \in {SP, NL, IND}

Tokens(s) == SelectSeq(s, LAMBDA p : ~White(p))

Only(s, ops) == SelectSeq(s, LAMBDA p : p \in ops)

RECURSIVE AfterOp(_, _)
AfterOp(t, op) ==
  IF t = <<>> THEN <<>>
  ELSE IF Head(t) = op THEN Tail(t)
  ELSE AfterOp(Tail(t), op)

RECURSIVE BeforeOp(_, _)
BeforeOp(t, op) ==
  IF t = <<>> \/ Head(t) = op THEN <<>>
  ELSE <<Head(t)>> \o BeforeOp(Tail(t), op)

(* The pieces of the template line that follows the cap style line *)
DashLine(e) == BeforeOp(Tail(AfterOp(e.stream, "J")), NL)

InUnit(x) == x >= Num(0) /\ x <= Num(1)

ValidColor(c) == Len(c) = ColorLen /\ \A i \in DOMAIN c : InUnit(c[i])

ValidOpt(opt) == opt = None \/ ValidColor(Value(opt))

BadStyle(a) ==
  \/ a.border_width < Num(0)
  \/ a.line_join_style \notin {Num(0), Num(1), Num(2)}
  \/ a.line_cap_style \notin {Num(0), Num(1), Num(2)}

ColorsOf(e) ==
  IF e.op = "draw_rect" THEN {e.args.fill_color, e.args.stroke_color}
  ELSE {e.args.stroke_color}

BadColor(e) == \E opt \in ColorsOf(e) : ~ValidOpt(opt)

Rgb(c) == [i \in DOMAIN c |-> PyStr(c[i])]

DashTokens(a) ==
  IF a.dash_pattern = None THEN <<>> ELSE <<Value(a.dash_pattern), "d">>

PaintOps == {"f", "B", "S"}

RectDone == Called /\ Last.op = "draw_rect" /\ Ok(Last)

LineDone == Called /\ Last.op = "draw_line" /\ Ok(Last)

FillOnly(a) == a.fill_color # None /\ a.stroke_color = None

BothColors(a) == a.fill_color # None /\ a.stroke_color # None

StrokeOnly(a) == a.fill_color = None /\ a.stroke_color # None

(* The tokens of a rectangle fragment between the dash slot and the final Q *)
ColorBlock(e) ==
  LET t == AfterOp(Tokens(e.stream), "J")
      n == Len(DashTokens(e.args))
  IN SubSeq(t, n + 1, Len(t) - 1)

-----------------------------------------------------------------------------
(* C1: a draw_line or draw_rect call that fails (negative border_width, a   *)
(* join or cap style outside {0,1,2}, or a given colour that is not 3       *)
(* components in [0,1]) leaves the page's content streams exactly as they   *)
(* were before the call: nothing is appended.                               *)
C1_FailedDrawLeavesPage ==
  \A i \in DOMAIN log :
    LET e == log[i] IN
    (IsDraw(e) /\ (~Ok(e) \/ BadStyle(e.args) \/ BadColor(e)))
      => After(i) = e.before

C1_Witness ==
  /\ Called /\ IsDraw(Last)
  /\ Last.exc = "ValueError" /\ Last.msg = ColorError
  /\ ~BadStyle(Last.args)
  /\ Last.before # <<>>
  /\ page = Last.before

(* C2 as stated: in draw_rect the trailing S follows the colour block in    *)
(* every branch except fill-only, where f is the fragment's only paint      *)
(* operator.                                                                *)
C2_NoStrokeAfterFillOnly ==
  RectDone =>
    LET t == Tokens(Last.stream) IN
    IF FillOnly(Last.args)
    THEN Only(t, PaintOps) = <<"f">>
    ELSE t[Len(t) - 1] = "S"

(* C2 amended: draw_rect appends the trailing S after the colour block in   *)
(* all four branches; with only a fill colour the paint operators are f     *)
(* followed by S, with both colours B followed by S, otherwise S alone.     *)
C2_TrailingStrokeAlways ==
  RectDone =>
    LET t == Tokens(Last.stream)
        a == Last.args
    IN /\ t[Len(t) - 1] = "S"
       /\ t[Len(t)] = "Q"
       /\ Only(t, PaintOps) =
            IF BothColors(a) THEN <<"B", "S">>
            ELSE IF FillOnly(a) THEN <<"f", "S">>
            ELSE <<"S">>

C2_Witness ==
  /\ RectDone /\ FillOnly(Last.args)
  /\ ColorBlock(Last) = Rgb(Value(Last.args.fill_color)) \o <<"rg", "f", "S">>

(* C3: draw_rect chooses the colour block by which colours are given: both  *)
(* -> fill op rg, stroke op RG, B, S in that order; only stroke -> the      *)
(* stroke op of that colour and no rg, f or B; only fill -> the fill op     *)
(* then f and no RG or B.                                                   *)
C3_ColorBlockByCase ==
  RectDone =>
    LET a == Last.args
        block == ColorBlock(Last)
        noS == SelectSeq(block, LAMBDA p : p # "S")
        ops == Only(Tokens(Last.stream), {"rg", "RG", "f", "B"})
    IN IF BothColors(a)
       THEN /\ block = Rgb(Value(a.fill_color)) \o <<"rg">>
                         \o Rgb(Value(a.stroke_color)) \o <<"RG", "B", "S">>
            /\ ops = <<"rg", "RG", "B">>
       ELSE IF StrokeOnly(a)
       THEN /\ noS = Rgb(Value(a.stroke_color)) \o <<"RG">>
            /\ ops = <<"RG">>
       ELSE IF FillOnly(a)
       THEN /\ noS = Rgb(Value(a.fill_color)) \o <<"rg", "f">>
            /\ ops = <<"rg", "f">>
       ELSE ops = <<"RG">>

C3_Witness ==
  /\ RectDone
  /\ Last.args.fill_color = Some(Red) /\ Last.args.stroke_color = Some(Black)
  /\ ColorBlock(Last) = <<"1", "0", "0", "rg", "0", "0", "0", "RG", "B", "S">>

(* C4: color_code succeeds for every colour of exactly 3 components each in *)
(* [0,1], 0 and 1 included, and returns the components verbatim, separated  *)
(* by spaces, then "RG " (stroke) or "rg " (fill); for every colour whose   *)
(* length is not 3 or with a component < 0 or > 1 it raises the invalid     *)
(* colour error and returns nothing (no clamping).                          *)
Shown(x) == CASE x = 0 -> "0" [] x = 1 -> "0.5" [] x = Num(1) -> "1"

C4_ColorCode ==
  (Called /\ Last.op = "color_code") =>
    LET c == Last.args.c
        f == Last.args.f
    IN IF ValidColor(c)
       THEN /\ Ok(Last)
            /\ Text(Last.stream) =
                 Shown(c[1]) \o " " \o Shown(c[2]) \o " " \o Shown(c[3])
                   \o (IF f = "c" THEN " RG " ELSE " rg ")
       ELSE /\ Last.exc = "ValueError" /\ Last.msg = ColorError
            /\ Last.stream = <<>>

C4_Witness ==
  /\ Called /\ Last.op = "color_code"
  /\ Last.args.c = <<0, 1, Num(1)>> /\ Last.args.f = "c"
  /\ Text(Last.stream) = "0 0.5 1 RG "

(* C5: draw_line and draw_rect both raise the invalid-parameter error when  *)
(* border_width < 0 or the join or cap style is outside {0,1,2}; with valid *)
(* colours they succeed for every border_width >= 0 (0 included) and any    *)
(* join and cap style in {0,1,2}; the style validation of the two is the    *)
(* same.                                                                    *)
StyleErrors == {BorderWidthError, JoinStyleError, CapStyleError}

C5_StyleValidation ==
  (Called /\ IsDraw(Last)) =>
    LET a == Last.args
        other == IF Last.op = "draw_line" THEN RectStyleCheck(a)
                 ELSE LineStyleCheck(a)
    IN /\ BadStyle(a) =>
            /\ Last.exc = "ValueError" /\ Last.msg \in StyleErrors
            /\ other.exc = Last.exc /\ other.msg = Last.msg
       /\ ~BadStyle(a) => other.exc = "none"
       /\ (~BadStyle(a) /\ ~BadColor(Last)) => Ok(Last)

C5_Witness ==
  /\ RectDone
  /\ Last.args.border_width = Num(0)
  /\ Last.args.line_join_style = Num(2) /\ Last.args.line_cap_style = Num(2)
  /\ Len(page) = Len(Last.before) + 1

(* C6: the fragment of a successful draw_line is, in this order: q, the     *)
(* start point and m, the end point and l, the width and w, h, the join     *)
(* style and j, the cap style and J, the dash pattern and d exactly when a  *)
(* dash pattern was given (a blank otherwise), the stroke colour and RG     *)
(* immediately followed by S, and Q; no fill operator (rg, f, B) occurs.    *)
C6_LineFragment ==
  LineDone =>
    LET a == Last.args
        t == Tokens(Last.stream)
        stroke == IF a.stroke_color = None THEN Black ELSE Value(a.stroke_color)
    IN /\ t = <<"q", PyStr(a.start_point[1]), PyStr(a.start_point[2]), "m",
                PyStr(a.end_point[1]), PyStr(a.end_point[2]), "l",
                PyStr(a.border_width), "w", "h",
                PyStr(a.line_join_style), "j", PyStr(a.line_cap_style), "J">>
              \o DashTokens(a) \o Rgb(stroke) \o <<"RG", "S", "Q">>
       /\ Only(t, {"rg", "f", "B"}) = <<>>
       /\ (a.dash_pattern = None) = (Only(t, {"d"}) = <<>>)
       /\ DashLine(Last) = IF a.dash_pattern = None THEN <<IND, SP>>
                           ELSE <<IND, Value(a.dash_pattern), SP, "d">>
       /\ page = Append(Last.before, Text(Last.stream))

C6_Witness ==
  /\ LineDone
  /\ Tokens(Last.stream) =
       <<"q", "10", "50", "m", "300", "-400", "l", "2", "w", "h", "1", "j",
         "1", "J", "[2 5] 0", "d", "0", "1", "1", "RG", "S", "Q">>

(* C7: the fragment of a successful draw_rect is, in this order: q, the     *)
(* origin x and y, width, height and re, the line width and w, h, the join  *)
(* style and j, the cap style and J, the dash pattern and d exactly when a  *)
(* dash pattern was given (a blank otherwise), the colour/paint block, and  *)
(* Q; it holds exactly one q, at its start, and exactly one Q, at its end.  *)
C7_RectFragment ==
  RectDone =>
    LET a == Last.args
        t == Tokens(Last.stream)
        head == <<"q", PyStr(a.point[1]), PyStr(a.point[2]), PyStr(a.width),
                  PyStr(a.height), "re", PyStr(a.border_width), "w", "h",
                  PyStr(a.line_join_style), "j", PyStr(a.line_cap_style), "J">>
                  \o DashTokens(a)
        block == SubSeq(t, Len(head) + 1, Len(t) - 1)
    IN /\ Len(t) > Len(head) + 1
       /\ SubSeq(t, 1, Len(head)) = head
       /\ block # <<>>
       /\ Only(block, {"q", "Q", "re", "w", "h", "j", "J", "d"}) = <<>>
       /\ Only(block, {"rg", "RG"}) # <<>>
       /\ t[Len(t)] = "Q"
       /\ Only(t, {"q"}) = <<"q">> /\ Only(t, {"Q"}) = <<"Q">>
       /\ (a.dash_pattern = None) = (Only(t, {"d"}) = <<>>)
       /\ DashLine(Last) = IF a.dash_pattern = None THEN <<IND, SP>>
                           ELSE <<IND, Value(a.dash_pattern), SP, "d">>
       /\ page = Append(Last.before, Text(Last.stream))

C7_Witness ==
  /\ RectDone
  /\ Tokens(Last.stream) =
       <<"q", "10", "100", "50", "100", "re", "2", "w", "h", "1", "j", "0", "J",
         "[2 5] 0", "d", "0", "1", "0", "RG", "S", "Q">>

(* C8: an unspecified stroke colour is black: draw_line without             *)
(* stroke_color appends the fragment that the same call with stroke_color = *)
(* [0,0,0] appends, and draw_rect with neither colour appends the fragment  *)
(* that the same call with stroke_color = [0,0,0] and no fill_color appends.*)
C8_DefaultStrokeIsBlack ==
  (Called /\ IsDraw(Last) /\ Ok(Last) /\ ColorsOf(Last) = {None}) =>
    LET black == [Last.args EXCEPT !.stroke_color = Some(<<0, 0, 0>>)]
        explicit == IF Last.op = "draw_line" THEN draw_line(Last.before, black)
                    ELSE draw_rect(Last.before, black)
    IN /\ explicit.exc = "none"
       /\ page = explicit.page
       /\ page # Last.before
       /\ ColorBlock(Last) = <<"0", "0", "0", "RG", "S">>

C8_Witness ==
  /\ LineDone /\ Last.args.stroke_color = None
  /\ ColorBlock(Last) = <<"0", "0", "0", "RG", "S">>
  /\ Len(page) = Len(Last.before) + 1

(* C9: after any sequence of draw_line and draw_rect calls the page holds   *)
(* its initial content followed by exactly one fragment per successful      *)
(* call, in call order; a call never changes what was appended before it,   *)
(* and what a call appends, or how it fails, depends only on its arguments, *)
(* so equal calls give equal fragments or equal failures.                   *)
RECURSIVE Fragments(_)
Fragments(l) ==
  IF l = <<>> THEN <<>>
  ELSE (IF Ok(Head(l)) THEN <<Text(Head(l).stream)>> ELSE <<>>)
         \o Fragments(Tail(l))

Alone(e) ==
  IF e.op = "draw_line" THEN draw_line(<<>>, e.args) ELSE draw_rect(<<>>, e.args)

C9_PageIsFragmentsInCallOrder ==
  /\ page = page0 \o Fragments(log)
  /\ \A i \in DOMAIN log :
       LET e == log[i] IN
       /\ e.before = page0 \o Fragments(SubSeq(log, 1, i - 1))
       /\ Ok(e) => e.stream # <<>>
       /\ e.exc = Alone(e).exc /\ e.msg = Alone(e).msg
       /\ e.stream = Alone(e).stream
       /\ Ok(e) => Alone(e).page = <<Text(e.stream)>>
  /\ \A i, j \in DOMAIN log :
       (log[i].op = log[j].op /\ log[i].args = log[j].args)
         => /\ log[i].exc = log[j].exc /\ log[i].msg = log[j].msg
            /\ log[i].stream = log[j].stream

C9_Witness ==
  /\ Len(log) = MaxCalls /\ page0 # <<>>
  /\ Ok(log[1]) /\ ~Ok(log[2]) /\ Ok(log[Len(log)])
  /\ log[1].op = "draw_rect" /\ log[Len(log)].op = "draw_line"
  /\ page = page0 \o <<Text(log[1].stream), Text(log[Len(log)].stream)>>

(* C10: with several invalid arguments the error is fixed by the order of   *)
(* validation: border_width first, then line_join_style, then              *)
(* line_cap_style, and colours only once all three passed, so an invalid    *)
(* colour is reported only when every style parameter is valid; draw_rect   *)
(* with both colours given checks the fill colour before the stroke colour. *)
FirstBadColor(e) ==
  IF e.op = "draw_rect" /\ ~ValidOpt(e.args.fill_color) THEN e.args.fill_color
  ELSE e.args.stroke_color

C10_ValidationOrder ==
  (Called /\ IsDraw(Last)) =>
    LET a == Last.args
        widthBad == a.border_width < Num(0)
        joinBad == a.line_join_style \notin {Num(0), Num(1), Num(2)}
        capBad == a.line_cap_style \notin {Num(0), Num(1), Num(2)}
    IN /\ widthBad => Last.msg = BorderWidthError
       /\ (~widthBad /\ joinBad) => Last.msg = JoinStyleError
       /\ (~widthBad /\ ~joinBad /\ capBad) => Last.msg = CapStyleError
       /\ Last.msg = ColorError => ~BadStyle(a)
       /\ Last.culprit # None => Last.msg = ColorError
       /\ (~BadStyle(a) /\ BadColor(Last))
            => /\ Last.msg = ColorError
               /\ Last.culprit = Some(Value(FirstBadColor(Last)))

C10_Witness ==
  /\ Called /\ Last.op = "draw_line"
  /\ Last.args.border_width >= Num(0)
  /\ Last.args.line_join_style = Num(3) /\ Last.args.line_cap_style = Num(0 - 1)
  /\ ~ValidOpt(Last.args.stroke_color)
  /\ Last.msg = JoinStyleError

====
